---- MODULE Spec2Model ----
(***************************************************************************)
(* Blueprint traceability server: the artifact index, the graph validator, *)
(* the lifecycle gate and the mutating MCP tools.                          *)
(*                                                                         *)
(* Storage is a map from document paths <<directory, stem>> to the         *)
(* document's YAML front-matter (a Python dict, here a function from field *)
(* names to values).  Python None read out of a dict is the string "None"; *)
(* an Optional[...] result of a function is a sequence of length 0 or 1.   *)
(***************************************************************************)
EXTENDS Integers, Sequences, FiniteSets, TLC

VARIABLES
    files,      \* storage: path -> front-matter of the markdown document
    logs,       \* Review_Logs documents written by update_status
    sprint,     \* execution/sprint_current.md: <<>> or <<checklist>>
    cache,      \* artifact_index._INDEX_CACHE: <<>> (None) or <<index>>
    scanRev,    \* direction in which rglob happens to enumerate the corpus
    idx,        \* the handler-local snapshot of the last tool call
    call,       \* the last tool call and its arguments
    res,        \* what the last tool call returned
    ncalls,     \* number of calls made so far
    st,         \* lifecycle walk: artifact -> status
    trail,      \* lifecycle walk: artifact -> what happened since APPROVED
    wasDone,    \* lifecycle walk: artifact -> has it ever been DONE
    req,        \* lifecycle walk: last check_transition call and its result
    vidx,       \* validator: the snapshot handed to validate_traceability
    fbstore,    \* validator: ids that have a feedback file FB-<id>.md
    order,      \* validator: iteration order of the snapshot dict
    report      \* validator: <<>> or <<errors>> of the last validate run

vars == <<files, logs, sprint, cache, scanRev, idx, call, res, ncalls,
          st, trail, wasDone, req, vidx, fbstore, order, report>>

toolVars == <<files, logs, sprint, cache, scanRev, idx, call, res, ncalls>>
gateVars == <<st, trail, wasDone, req>>
valVars  == <<vidx, fbstore, order, report>>

---------------------------------------------------------------------------
(* Bounds of the model *)

MaxCalls == 3
MaxDeps  == 2
MaxSteps == 4

---------------------------------------------------------------------------
(* Python values *)

None == "None"

EmptyDict == [k \in {} |-> ""]

\* dict.get(key) on a dict of strings
Get(m, k) == IF k \in DOMAIN m THEN m[k] ELSE None

\* dict.get(key, default)
GetOr(m, k, d) == IF k \in DOMAIN m THEN m[k] ELSE d

\* dict.update
Update(m, u) ==
    [k \in DOMAIN m \cup DOMAIN u |-> IF k \in DOMAIN u THEN u[k] ELSE m[k]]

\* The dependencies field is duck-typed: a YAML list, null, or a string
\* "[A, B]" kept as its comma-separated parts and whether it has brackets.
DepList(items) == [form |-> "list", items |-> items]
DepNull == [form |-> "null"]
DepStr(brackets, parts) == [form |-> "str", brackets |-> brackets, parts |-> parts]

Truthy_present(m, f) == f \in DOMAIN m

\* truth value of meta.get(field): absent, None, "" and [] are falsy
Truthy(m, f) ==
    /\ f \in DOMAIN m
    /\ IF f = "dependencies"
       THEN \/ m[f].form = "list" /\ m[f].items # <<>>
            \/ m[f].form = "str" /\ (m[f].brackets \/ m[f].parts # <<"">>)
       ELSE m[f] # None /\ m[f] # ""

Reverse(s) == [i \in 1..Len(s) |-> s[Len(s) + 1 - i]]

SeqRange(s) == {s[i] : i \in 1..Len(s)}

---------------------------------------------------------------------------
(* artifact_index.py *)

\* The IDs the model uses and the text before their first "-".
IdHead ==
    [a \in {"GL-1", "FT-1", "RS-1", "UC-1", "UC-2", "UC-3", "UC-9",
            "TSK-1", "TSK-2", "XX-1"} |->
        CASE a = "GL-1" -> "GL"
          [] a = "FT-1" -> "FT"
          [] a = "RS-1" -> "RS"
          [] a \in {"UC-1", "UC-2", "UC-3", "UC-9"} -> "UC"
          [] a \in {"TSK-1", "TSK-2"} -> "TSK"
          [] OTHER -> "XX"]

\* artifact_id.startswith(prefix + "-")
StartsWith(a, prefix) == a \in DOMAIN IdHead /\ IdHead[a] = prefix

ID_PREFIXES ==
    << <<"GL", "Goal">>, <<"FT", "Feature">>, <<"RS", "Research">>,
       <<"UC", "UseCase">>, <<"TSK", "Task">> >>

type_from_id(a) ==
    LET hits == {i \in 1..Len(ID_PREFIXES) : StartsWith(a, ID_PREFIXES[i][1])}
    IN  IF hits = {} THEN None
        ELSE ID_PREFIXES[CHOOSE i \in hits : \A j \in hits : i <= j][2]

\* Position of a path in the order BLUEPRINT_ROOT.rglob("*.md") yields it.
\* The order is the file system's; the model takes one order or its reverse.
DirRank ==
    [d \in {"brain", "R_D_Archive", "logic", "backlog"} |->
        CASE d = "brain" -> 1 [] d = "R_D_Archive" -> 2
          [] d = "logic" -> 3 [] OTHER -> 4]

\* The file names the model uses, in name order
StemOrder ==
    <<"GL-1", "FT-1", "RS-1", "UC-1", "UC-1-copy", "UC-2", "UC-3", "UC-9",
      "TSK-1", "TSK-2", "XX-1", "notes">>

StemRank ==
    [n \in SeqRange(StemOrder) |->
        CHOOSE i \in 1..Len(StemOrder) : StemOrder[i] = n]

ScanPos_drift(p) ==
    LET pos == DirRank[p[1]] * (Len(StemOrder) + 1) + StemRank[p[2]]
    IN  IF scanRev = (ncalls % 2 = 0) THEN 0 - pos ELSE pos

\* directory by directory, the files of a directory by name
ScanPos(p) ==
    LET pos == DirRank[p[1]] * (Len(StemOrder) + 1) + StemRank[p[2]]
    IN  IF scanRev THEN 0 - pos ELSE pos

\* The documents build_index keeps: an id is declared and has a known prefix.
Indexed ==
    {p \in DOMAIN files :
        /\ Truthy(files[p], "id")
        /\ type_from_id(files[p]["id"]) # None}

\* The body of build_index: one pass over the corpus, the last document that
\* declares an id wins.  body_snippet is not modelled (bodies are opaque).
scan_corpus ==
    [a \in {files[p]["id"] : p \in Indexed} |->
        LET ps == {p \in Indexed : files[p]["id"] = a}
            w  == CHOOSE p \in ps : \A q \in ps : ScanPos(q) <= ScanPos(p)
        IN  [type |-> type_from_id(a), path |-> w, meta |-> files[w]]]

\* The key order of the dict build_index returns: an id sits where the first
\* document declaring it was met
index_order ==
    LET ids == {files[p]["id"] : p \in Indexed}
        FirstPos(a) ==
            LET ps == {p \in Indexed : files[p]["id"] = a}
            IN  ScanPos(CHOOSE p \in ps : \A q \in ps : ScanPos(p) <= ScanPos(q))
    IN  [i \in 1..Cardinality(ids) |->
            CHOOSE a \in ids :
                Cardinality({b \in ids : FirstPos(b) < FirstPos(a)}) = i - 1]

build_index_cached == IF cache = <<>> THEN scan_corpus ELSE cache[1]

build_index == scan_corpus

\* idx.get(key) as an Optional
IdxGet(ix, a) == IF a \in DOMAIN ix THEN <<ix[a]>> ELSE <<>>

\* get_by_id(artifact_id, index): idx.get(artifact_id) as an Optional
get_by_id(artifact_id, ix) == IdxGet(ix, artifact_id)

\* The keys get_children and get_trace_path read, in the order of each
CHILD_KEYS == <<"parent_goal", "parent_feat", "parent_uc", "origin">>
TRACE_KEYS == <<"parent_uc", "parent_feat", "parent_goal", "origin">>

\* get_children(parent_id, index): the entries, in the order of the dict,
\* with str(meta.get(key, "")) == str(parent_id) for one of the keys
get_children(parent_id, ix, ord) ==
    LET Match(a) ==
            \E i \in 1..Len(CHILD_KEYS) :
                GetOr(ix[a].meta, CHILD_KEYS[i], "") = parent_id
        hits == SelectSeq(ord, Match)
    IN  [i \in 1..Len(hits) |-> ix[hits[i]]]

\* The for loop of get_trace_path taken with the keys in reverse
parent_of_reversed(meta) ==
    LET found == {i \in 1..Len(TRACE_KEYS) : Truthy(meta, TRACE_KEYS[i])}
    IN  IF found = {} THEN None
        ELSE meta[TRACE_KEYS[CHOOSE i \in found : \A j \in found : j <= i]]

\* The for loop of get_trace_path: str() of the first truthy value, or None
parent_of(meta) ==
    LET found == {i \in 1..Len(TRACE_KEYS) : Truthy(meta, TRACE_KEYS[i])}
    IN  IF found = {} THEN None
        ELSE meta[TRACE_KEYS[CHOOSE i \in found : \A j \in found : i <= j]]

RECURSIVE trace_walk_revisit(_, _, _, _)
RECURSIVE trace_walk(_, _, _, _)

\* The while loop with the visited test made after the node is appended
trace_walk_revisit(ix, current_id, visited, chain) ==
    IF current_id = None \/ current_id = "" THEN chain
    ELSE LET node == IdxGet(ix, current_id) IN
         IF node = <<>> THEN chain
         ELSE IF current_id \in visited THEN Append(chain, node[1])
         ELSE trace_walk_revisit(ix, parent_of(node[1].meta),
                                 visited \cup {current_id},
                                 Append(chain, node[1]))

\* The while loop of get_trace_path
trace_walk(ix, current_id, visited, chain) ==
    IF current_id = None \/ current_id = "" \/ current_id \in visited
    THEN chain
    ELSE LET node == IdxGet(ix, current_id) IN
         IF node = <<>> THEN chain
         ELSE trace_walk(ix, parent_of(node[1].meta),
                         visited \cup {current_id}, Append(chain, node[1]))

\* get_trace_path(artifact_id, index)
get_trace_path(artifact_id, ix) == trace_walk(ix, artifact_id, {}, <<>>)

---------------------------------------------------------------------------
(* fs_reader.py *)

\* write_frontmatter: yaml.dump followed by safe_load gives the dict back
\* for the strings, integers and lists the model stores.
write_frontmatter(fs, path, metadata) ==
    [p \in DOMAIN fs \cup {path} |-> IF p = path THEN metadata ELSE fs[p]]

\* read_frontmatter: {} when the file cannot be read
read_frontmatter(fs, path) == IF path \in DOMAIN fs THEN fs[path] ELSE EmptyDict

\* patch_frontmatter writing the updates in place of the stored fields
patch_frontmatter_replace(fs, path, updates) ==
    write_frontmatter(fs, path, updates)

patch_frontmatter(fs, path, updates) ==
    write_frontmatter(fs, path, Update(read_frontmatter(fs, path), updates))

---------------------------------------------------------------------------
(* validate_traceability.py: tables and the transition gate *)

REQUIRED_FIELDS ==
    [t \in {"Goal", "Feature", "Research", "UseCase", "Task"} |->
        CASE t = "Goal"     -> <<"id", "title", "status">>
          [] t = "Feature"  -> <<"id", "title", "status", "parent_goal">>
          [] t = "Research" -> <<"id", "hypothesis", "verdict", "parent_goal">>
          [] t = "UseCase"  -> <<"id", "title", "status", "parent_feat", "dependencies">>
          [] OTHER          -> <<"id", "title", "status", "parent_uc">>]

VALID_STATUSES ==
    {"DRAFT", "REVIEW", "APPROVED", "NEEDS_FIX",
     "BLOCKED", "DONE", "ARCHIVED", "REJECTED"}

FORBIDDEN_TRANSITIONS ==
    [s \in {"APPROVED", "DONE"} |->
        IF s = "APPROVED" THEN {"DRAFT", "REVIEW"}
        ELSE VALID_STATUSES \ {"ARCHIVED"}]

check_transition_done_only(artifact_id, current_status, new_status) ==
    IF current_status = "DONE" /\ new_status \in FORBIDDEN_TRANSITIONS["DONE"]
    THEN << [text |-> "terminal", mentions |-> {artifact_id, "DONE", "ARCHIVED"}] >>
    ELSE <<>>

\* The message is kept as its wording and the set of values it spells out.
check_transition(artifact_id, current_status, new_status) ==
    IF /\ current_status \in DOMAIN FORBIDDEN_TRANSITIONS
       /\ new_status \in FORBIDDEN_TRANSITIONS[current_status]
    THEN IF current_status = "DONE"
         THEN << [text |-> "terminal",
                  mentions |-> {artifact_id, "DONE", "ARCHIVED"}] >>
         ELSE << [text |-> "use NEEDS_FIX first",
                  mentions |-> {artifact_id, current_status, new_status,
                                "NEEDS_FIX", "REVIEW"}] >>
    ELSE <<>>

-------------------------------------------------------------------------------------------------------------------------------------------------
(* validate_traceability.py: the validator *)

PARENT_FIELDS == <<"parent_goal", "parent_feat", "parent_uc", "origin">>

\* ValidationError: detail is the message's wording and the values it spells out
ValidationError(artifact_id, entry, error_type, msg, args, severity) ==
    [artifact_id   |-> artifact_id,
     artifact_type |-> entry.type,
     path          |-> entry.path,
     error_type    |-> error_type,
     detail        |-> [msg |-> msg, args |-> args],
     severity      |-> severity]

\* ValidationReport.has_errors, with the variant that counts any entry
has_errors_any(errors) == errors # <<>>

has_errors(errors) ==
    \E i \in 1..Len(errors) : errors[i].severity = "ERROR"

\* ValidationReport.error_count and warning_count
error_count(errors) ==
    Cardinality({i \in 1..Len(errors) : errors[i].severity = "ERROR"})

warning_count(errors) ==
    Cardinality({i \in 1..Len(errors) : errors[i].severity = "WARNING"})

\* ValidationReport.summary: the lines of the text, each as the values it
\* is formatted from
summary(errors) ==
    IF errors = <<>> THEN << [kind |-> "all_clear"] >>
    ELSE
        LET errs  == SelectSeq(errors, LAMBDA e : e.severity = "ERROR")
            warns == SelectSeq(errors, LAMBDA e : e.severity = "WARNING")
            Line(tag, e) ==
                [kind |-> tag, error_type |-> e.error_type,
                 artifact_id |-> e.artifact_id,
                 artifact_type |-> e.artifact_type, detail |-> e.detail]
        IN  (IF errs # <<>>
             THEN << [kind |-> "found_errors", n |-> Len(errs)] >>
                  \o [i \in 1..Len(errs) |-> Line("ERROR", errs[i])]
             ELSE <<>>)
            \o
            (IF warns # <<>>
             THEN << [kind |-> "found_warnings", n |-> Len(warns)] >>
                  \o [i \in 1..Len(warns) |-> Line("WARN", warns[i])]
             ELSE <<>>)

RECURSIVE Flatten(_)
Flatten(ss) == IF ss = <<>> THEN <<>> ELSE Head(ss) \o Flatten(Tail(ss))

\* [d.strip() for d in deps.strip("[]").split(",") if d.strip()]
parse_deps(d) == SelectSeq(d.parts, LAMBDA x : x # "")

deps_g8_list_only(meta) ==
    IF "dependencies" \notin DOMAIN meta THEN <<>>
    ELSE LET d == meta["dependencies"] IN
         CASE d.form = "list" -> d.items
           [] OTHER           -> <<>>

\* G8 reading of the field: meta.get("dependencies"), None taken as []
deps_g8(meta) ==
    IF "dependencies" \notin DOMAIN meta THEN <<>>
    ELSE LET d == meta["dependencies"] IN
         CASE d.form = "null" -> <<>>
           [] d.form = "str"  -> parse_deps(d)
           [] OTHER           -> d.items

\* G9 reading of the field: meta.get("dependencies", []), where a null stays
\* None in the graph
deps_g9(meta) ==
    IF "dependencies" \notin DOMAIN meta THEN [null |-> FALSE, items |-> <<>>]
    ELSE LET d == meta["dependencies"] IN
         CASE d.form = "null" -> [null |-> TRUE, items |-> <<>>]
           [] d.form = "str"  -> [null |-> FALSE, items |-> parse_deps(d)]
           [] OTHER           -> [null |-> FALSE, items |-> d.items]

\* G4: the file name must be the declared id
g4_errors(ix, ord) ==
    Flatten([i \in 1..Len(ord) |->
        LET e == ix[ord[i]] IN
        IF e.path[2] # ord[i]
        THEN << ValidationError(ord[i], e, "DUPLICATE_ID",
                    "file name does not match declared id",
                    <<e.path[2], ord[i]>>, "ERROR") >>
        ELSE <<>>])

\* G5: required fields
g5_errors(aid, e) ==
    LET req_fields == IF e.type \in DOMAIN REQUIRED_FIELDS
                      THEN REQUIRED_FIELDS[e.type] ELSE <<>>
    IN  Flatten([i \in 1..Len(req_fields) |->
            IF ~Truthy(e.meta, req_fields[i])
            THEN << ValidationError(aid, e, "MISSING_FIELD",
                        "required field missing or empty",
                        <<req_fields[i]>>, "ERROR") >>
            ELSE <<>>])

g3_errors_no_origin(ix, aid, e) ==
    Flatten([i \in 1..(Len(PARENT_FIELDS) - 1) |->
        IF /\ Truthy(e.meta, PARENT_FIELDS[i])
           /\ e.meta[PARENT_FIELDS[i]] \notin DOMAIN ix
        THEN << ValidationError(aid, e, "ORPHAN",
                    "parent reference does not exist",
                    <<PARENT_FIELDS[i], e.meta[PARENT_FIELDS[i]]>>, "ERROR") >>
        ELSE <<>>])

\* G3: parent references resolve
g3_errors(ix, aid, e) ==
    Flatten([i \in 1..Len(PARENT_FIELDS) |->
        IF /\ Truthy(e.meta, PARENT_FIELDS[i])
           /\ e.meta[PARENT_FIELDS[i]] \notin DOMAIN ix
        THEN << ValidationError(aid, e, "ORPHAN",
                    "parent reference does not exist",
                    <<PARENT_FIELDS[i], e.meta[PARENT_FIELDS[i]]>>, "ERROR") >>
        ELSE <<>>])

\* G8: dependencies resolve, and a DONE node has only DONE dependencies
g8_errors(ix, aid, e) ==
    LET deps == deps_g8(e.meta) IN
    Flatten([i \in 1..Len(deps) |->
        IF deps[i] \notin DOMAIN ix
        THEN << ValidationError(aid, e, "ORPHAN",
                    "dependency does not exist", <<deps[i]>>, "ERROR") >>
        ELSE IF /\ Get(e.meta, "status") = "DONE"
                /\ Get(ix[deps[i]].meta, "status") # "DONE"
        THEN << ValidationError(aid, e, "GATE_VIOLATION",
                    "cannot mark DONE while dependency is not",
                    <<aid, deps[i], Get(ix[deps[i]].meta, "status")>>,
                    "ERROR") >>
        ELSE <<>>])

\* G1: a Task's parent UseCase is APPROVED
g1_errors(ix, aid, e) ==
    LET parent_uc_id == GetOr(e.meta, "parent_uc", "")
        parent       == IdxGet(ix, parent_uc_id)
    IN  IF /\ e.type = "Task"
           /\ parent # <<>>
           /\ Get(parent[1].meta, "status") # "APPROVED"
        THEN << ValidationError(aid, e, "BLOCKED_BY_PARENT",
                    "parent UseCase must be APPROVED",
                    <<parent_uc_id, Get(parent[1].meta, "status")>>, "ERROR") >>
        ELSE <<>>

g2_errors_success_only(ix, aid, e) ==
    LET parent_feat_id == GetOr(e.meta, "parent_feat", "")
        feat           == IdxGet(ix, parent_feat_id)
        feat_goal      == GetOr(feat[1].meta, "parent_goal", "")
        linked_rs      ==
            {r \in DOMAIN ix :
                /\ ix[r].type = "Research"
                /\ GetOr(ix[r].meta, "parent_goal", "") = feat_goal
                /\ Get(ix[r].meta, "verdict") = "SUCCESS"}
    IN  IF /\ e.type = "UseCase"
           /\ feat # <<>>
           /\ Get(feat[1].meta, "research_required") \in {"true", "True"}
           /\ linked_rs = {}
        THEN << ValidationError(aid, e, "GATE_VIOLATION",
                    "research_required but no Research spike",
                    <<parent_feat_id, feat_goal>>, "ERROR") >>
        ELSE <<>>

\* G2: a UseCase under a research_required Feature needs a Research spike
g2_errors(ix, aid, e) ==
    LET parent_feat_id == GetOr(e.meta, "parent_feat", "")
        feat           == IdxGet(ix, parent_feat_id)
        feat_goal      == GetOr(feat[1].meta, "parent_goal", "")
        linked_rs      ==
            {r \in DOMAIN ix :
                /\ ix[r].type = "Research"
                /\ GetOr(ix[r].meta, "parent_goal", "") = feat_goal
                /\ Get(ix[r].meta, "verdict") \in {"SUCCESS", "PENDING"}}
    IN  IF /\ e.type = "UseCase"
           /\ feat # <<>>
           /\ Get(feat[1].meta, "research_required") \in {"true", "True"}
           /\ linked_rs = {}
        THEN << ValidationError(aid, e, "GATE_VIOLATION",
                    "research_required but no Research spike",
                    <<parent_feat_id, feat_goal>>, "ERROR") >>
        ELSE <<>>

\* The per-artifact loop (G5, G3, G8, G1, G2 for each entry in turn)
node_errors(ix, ord) ==
    Flatten([i \in 1..Len(ord) |->
        LET aid == ord[i]
            e   == ix[aid]
        IN  g5_errors(aid, e) \o g3_errors(ix, aid, e) \o g8_errors(ix, aid, e)
            \o g1_errors(ix, aid, e) \o g2_errors(ix, aid, e)])

\* G9: the dependency graph
build_graph(ix) == [a \in DOMAIN ix |-> deps_g9(ix[a].meta)]

\* graph.get(node_id, [])
GraphGet(graph, node_id) ==
    IF node_id \in DOMAIN graph THEN graph[node_id]
    ELSE [null |-> FALSE, items |-> <<>>]

\* What a find_cycle call hands back: its return value (<<>> for None), the
\* two sets it mutates, and whether iterating a None raised TypeError.
Found(cycle, visited, stack) ==
    [cycle |-> cycle, visited |-> visited, stack |-> stack, raised |-> FALSE]

RECURSIVE find_cycle(_, _, _, _), find_cycle_loop(_, _, _, _, _)

find_cycle_loop_keep(graph, node_id, i, visited, stack) ==
    LET nbrs == GraphGet(graph, node_id).items IN
    IF GraphGet(graph, node_id).null
    THEN [Found(<<>>, visited, stack) EXCEPT !.raised = TRUE]
    ELSE IF i > Len(nbrs)
    THEN Found(<<>>, visited, stack)
    ELSE IF nbrs[i] \notin visited
    THEN LET r == find_cycle(graph, nbrs[i], visited, stack) IN
         IF r.raised THEN r
         ELSE IF r.cycle # <<>>
         THEN Found(Append(r.cycle, node_id), r.visited, r.stack)
         ELSE find_cycle_loop(graph, node_id, i + 1, r.visited, r.stack)
    ELSE IF nbrs[i] \in stack
    THEN Found(<<nbrs[i], node_id>>, visited, stack)
    ELSE find_cycle_loop(graph, node_id, i + 1, visited, stack)

\* the for loop of find_cycle from the i-th neighbour on, then stack.remove
find_cycle_loop(graph, node_id, i, visited, stack) ==
    LET nbrs == GraphGet(graph, node_id).items IN
    IF GraphGet(graph, node_id).null
    THEN [Found(<<>>, visited, stack) EXCEPT !.raised = TRUE]
    ELSE IF i > Len(nbrs)
    THEN Found(<<>>, visited, stack \ {node_id})
    ELSE IF nbrs[i] \notin visited
    THEN LET r == find_cycle(graph, nbrs[i], visited, stack) IN
         IF r.raised THEN r
         ELSE IF r.cycle # <<>>
         THEN Found(Append(r.cycle, node_id), r.visited, r.stack)
         ELSE find_cycle_loop(graph, node_id, i + 1, r.visited, r.stack)
    ELSE IF nbrs[i] \in stack
    THEN Found(<<nbrs[i], node_id>>, visited, stack)
    ELSE find_cycle_loop(graph, node_id, i + 1, visited, stack)

find_cycle(graph, node_id, visited, stack) ==
    find_cycle_loop(graph, node_id, 1,
                    visited \cup {node_id}, stack \cup {node_id})

\* W3 as it runs: the warning block sits inside the G9 loop and reads the
\* variables the earlier loops left behind, i.e. the last entry of the index.
w3_errors(ix, ord, fb) ==
    LET last   == ord[Len(ord)]
        status == GetOr(ix[last].meta, "status", "")
    IN  IF status \in {"NEEDS_FIX", "REJECTED"} /\ last \notin fb
        THEN << ValidationError(last, ix[last], "SOFT_WARNING",
                    "no feedback file", <<status, last>>, "WARNING") >>
        ELSE <<>>

\* for art_id in graph: ... from the i-th key on
RECURSIVE g9_scan(_, _, _, _, _, _)
g9_scan(ix, graph, ord, fb, i, visited) ==
    IF i > Len(ord) THEN [errors |-> <<>>, raised |-> FALSE]
    ELSE LET art_id == ord[i]
             r      == IF art_id \notin visited
                       THEN find_cycle(graph, art_id, visited, {})
                       ELSE Found(<<>>, visited, {})
         IN  IF r.raised THEN [errors |-> <<>>, raised |-> TRUE]
             ELSE IF r.cycle # <<>>
             THEN [errors |->
                      << ValidationError(art_id, ix[art_id], "GATE_VIOLATION",
                             "Circular dependency detected",
                             Reverse(r.cycle), "ERROR") >>,
                   raised |-> FALSE]
             ELSE LET rest == g9_scan(ix, graph, ord, fb, i + 1, r.visited) IN
                  [errors |-> w3_errors(ix, ord, fb) \o rest.errors,
                   raised |-> rest.raised]

\* What a validate call leaves in a metadata dict it went through: every
\* access is a read (meta.get(field), meta.get("dependencies", []) with a
\* default that is returned and not stored); deps is rebound, never mutated.
meta_after_setdefault(meta) ==
    IF "dependencies" \in DOMAIN meta THEN meta
    ELSE Update(meta, [dependencies |-> DepList(<<>>)])

meta_after(meta) == meta

\* The index dict after validate_traceability(index) has run on it: no key
\* is added or removed, and cycle.append works on the list find_cycle made.
index_after(ix) ==
    [a \in DOMAIN ix |-> [ix[a] EXCEPT !.meta = meta_after(ix[a].meta)]]

\* validate_traceability(index): the report, or the exception it dies with.
\* ord is the iteration order of the index dict.
validate_traceability(ix, ord, fb) ==
    LET scan == g9_scan(ix, build_graph(ix), ord, fb, 1, {}) IN
    [raised |-> scan.raised,
     errors |-> IF scan.raised THEN <<>>
                ELSE g4_errors(ix, ord) \o node_errors(ix, ord) \o scan.errors]

-----
(* agent_tools.py *)

ARTIFACT_WRITE_DIRS ==
    [t \in {"Goal", "Feature", "Research", "UseCase", "Task"} |->
        CASE t = "Goal"     -> "brain"
          [] t = "Feature"  -> "logic"
          [] t = "Research" -> "R_D_Archive"
          [] t = "UseCase"  -> "logic"
          [] OTHER          -> "backlog"]

\* VALID_STATUSES of agent_tools.py
TOOL_VALID_STATUSES ==
    {"DRAFT", "REVIEW", "APPROVED", "NEEDS_FIX", "BLOCKED", "DONE", "ARCHIVED"}

VALID_TYPES == DOMAIN ARTIFACT_WRITE_DIRS

\* _err_text / _text: the outcome, which message, and the values it spells out
ErrText(kind, mentions) == [ok |-> FALSE, kind |-> kind, mentions |-> mentions]
OkText(kind, mentions)  == [ok |-> TRUE,  kind |-> kind, mentions |-> mentions]

\* What a handler leaves behind: its result, its local snapshot (<<>> when it
\* returned before building one) and the storage after it.
Outcome(r, ix, fs) == [res |-> r, idx |-> ix, files |-> fs]

\* The parent field create_artifact fills in from the parent's type
field_map(parent_type) ==
    CASE parent_type = "Goal"    -> "parent_goal"
      [] parent_type = "Feature" -> "parent_feat"
      [] parent_type = "UseCase" -> "parent_uc"
      [] OTHER                   -> "origin"

\* Gate G1: parent["meta"].get("status") == "APPROVED"
parent_approved_lax(parent) == Get(parent.meta, "status") # "DRAFT"

parent_approved(parent) == Get(parent.meta, "status") = "APPROVED"

create_artifact(atype, aid, parent_arg, metadata) ==
    LET parent_id == IF parent_arg = "" THEN None ELSE parent_arg
        ix        == build_index
        uc_id     == GetOr(metadata, "parent_uc",
                           IF parent_id = None THEN "" ELSE parent_id)
        parent    == IdxGet(ix, uc_id)
        base      == [id |-> aid, status |-> "DRAFT",
                      created_at |-> "utcnow", revision_count |-> 1]
        pfield    == field_map(IF parent_id \in DOMAIN ix
                               THEN ix[parent_id].type ELSE "")
        linked    == IF parent_id # None
                     THEN Update(base, [k \in {pfield} |-> parent_id])
                     ELSE base
        full_meta == Update(linked, metadata)
        required  == REQUIRED_FIELDS[atype]
        missing   == {required[i] : i \in {j \in 1..Len(required) :
                                            ~Truthy(full_meta, required[j])}}
        target    == <<ARTIFACT_WRITE_DIRS[atype], aid>>
    IN  IF atype \notin VALID_TYPES
        THEN Outcome(ErrText("unknown type", {atype}), <<>>, files)
        ELSE IF parent_id # None /\ parent_id \notin DOMAIN ix
        THEN Outcome(ErrText("parent not found", {parent_id}), <<ix>>, files)
        ELSE IF atype = "Task" /\ parent = <<>>
        THEN Outcome(ErrText("G1 parent_uc not found", {uc_id}), <<ix>>, files)
        ELSE IF atype = "Task" /\ ~parent_approved(parent[1])
        THEN Outcome(ErrText("G1 parent not APPROVED",
                             {uc_id, Get(parent[1].meta, "status")}),
                     <<ix>>, files)
        ELSE IF missing # {}
        THEN Outcome(ErrText("missing required fields", missing), <<ix>>, files)
        ELSE IF target \in DOMAIN files
        THEN Outcome(ErrText("already exists", {aid}), <<ix>>, files)
        ELSE Outcome(OkText("created", {aid, atype}), <<ix>>,
                     write_frontmatter(files, target, full_meta))

update_status_late_check(aid, new_status) ==
    LET ix      == build_index
        entry   == IdxGet(ix, aid)
        patched == patch_frontmatter(files, entry[1].path,
                       [status         |-> new_status,
                        last_updated   |-> "utcnow",
                        revision_count |->
                            GetOr(entry[1].meta, "revision_count", 1) + 1])
    IN  IF entry = <<>>
        THEN Outcome(ErrText("not found", {aid}), <<ix>>, files)
        ELSE IF new_status \notin TOOL_VALID_STATUSES
        THEN Outcome(ErrText("invalid status", {new_status}), <<ix>>, patched)
        ELSE Outcome(OkText("status updated",
                            {aid, GetOr(entry[1].meta, "status", "UNKNOWN"),
                             new_status}),
                     <<ix>>, patched)

update_status(aid, new_status) ==
    LET ix         == build_index
        entry      == IdxGet(ix, aid)
        old_status == GetOr(entry[1].meta, "status", "UNKNOWN")
    IN  IF new_status \notin TOOL_VALID_STATUSES
        THEN Outcome(ErrText("invalid status", {new_status}), <<>>, files)
        ELSE IF entry = <<>>
        THEN Outcome(ErrText("not found", {aid}), <<ix>>, files)
        ELSE Outcome(OkText("status updated", {aid, old_status, new_status}),
                     <<ix>>,
                     patch_frontmatter(files, entry[1].path,
                         [status         |-> new_status,
                          last_updated   |-> "utcnow",
                          revision_count |->
                              GetOr(entry[1].meta, "revision_count", 1) + 1]))

\* The Review_Logs document update_status writes; it declares no id, so the
\* index never lists it.
status_log(ix, aid, new_status) ==
    [artifact   |-> aid,
     old_status |-> GetOr(ix[aid].meta, "status", "UNKNOWN"),
     new_status |-> new_status]

\* first loop of start_sprint: position of the first listed id that is not
\* an indexed Task, 0 if there is none
RECURSIVE first_invalid(_, _, _)
first_invalid(ix, task_ids, i) ==
    IF i > Len(task_ids) THEN 0
    ELSE IF task_ids[i] \notin DOMAIN ix \/ ix[task_ids[i]].type # "Task" THEN i
    ELSE first_invalid(ix, task_ids, i + 1)

\* second loop of start_sprint: patch every listed task in turn
RECURSIVE patch_all(_, _, _, _)
patch_all(fs, ix, task_ids, i) ==
    IF i > Len(task_ids) THEN fs
    ELSE patch_all(patch_frontmatter(fs, ix[task_ids[i]].path,
                       [status |-> "IN_PROGRESS", last_updated |-> "utcnow"]),
                   ix, task_ids, i + 1)

\* start_sprint with a single loop that patches each task as it is found
start_sprint_eager(task_ids) ==
    LET ix  == build_index
        bad == first_invalid(ix, task_ids, 1)
    IN  IF bad # 0
        THEN Outcome(ErrText("not a Task", {task_ids[bad]}), <<ix>>,
                     patch_all(files, ix, SubSeq(task_ids, 1, bad - 1), 1))
        ELSE Outcome(OkText("sprint started", SeqRange(task_ids)), <<ix>>,
                     patch_all(files, ix, task_ids, 1))

start_sprint(task_ids) ==
    LET ix  == build_index
        bad == first_invalid(ix, task_ids, 1)
    IN  IF bad # 0
        THEN Outcome(ErrText("not a Task", {task_ids[bad]}), <<ix>>, files)
        ELSE Outcome(OkText("sprint started", SeqRange(task_ids)), <<ix>>,
                     patch_all(files, ix, task_ids, 1))

complete_task(task_id) ==
    LET ix    == build_index
        entry == IdxGet(ix, task_id)
    IN  IF entry = <<>> \/ entry[1].type # "Task"
        THEN Outcome(ErrText("task not found", {task_id}), <<ix>>, files)
        ELSE Outcome(OkText("task done", {task_id}), <<ix>>,
                     patch_frontmatter(files, entry[1].path,
                         [status |-> "DONE", last_updated |-> "utcnow"]))

\* sprint_current.md as its checklist: one line per task, ticked or not
sprint_board(task_ids) ==
    << [i \in 1..Len(task_ids) |-> [tid |-> task_ids[i], done |-> FALSE]] >>

\* content.replace("- [ ] id", "- [x] id") when the file exists
tick_board(board, task_id) ==
    IF board = <<>> THEN board
    ELSE << [i \in 1..Len(board[1]) |->
               IF board[1][i].tid = task_id
               THEN [tid |-> task_id, done |-> TRUE]
               ELSE board[1][i]] >>

\* A call between the moment its index is built and its checks are made and
\* the moment it writes: the document it will write, and for a Task the
\* document of the parent the gate was decided on
pending_create(atype, aid, parent_arg, metadata) ==
    LET o      == create_artifact(atype, aid, parent_arg, metadata)
        target == <<ARTIFACT_WRITE_DIRS[atype], aid>>
        uc_id  == GetOr(metadata, "parent_uc", parent_arg)
    IN  [op |-> "create_artifact", id |-> aid, res |-> o.res,
         path |-> target, meta |-> o.files[target],
         gate |-> IF atype = "Task" THEN << o.idx[1][uc_id].path >> ELSE <<>>]

pending_update(aid, new_status) ==
    LET o    == update_status(aid, new_status)
        path == o.idx[1][aid].path
    IN  [op |-> "update_status", id |-> aid, res |-> o.res,
         path |-> path,
         meta |-> [k \in {"status", "last_updated", "revision_count"} |->
                      o.files[path][k]],
         gate |-> <<>>]

\* The write of a pending call made only while the gate still holds
land_checked(fs, r) ==
    IF r.gate # <<>>
       /\ Get(read_frontmatter(fs, r.gate[1]), "status") # "APPROVED"
    THEN fs
    ELSE IF r.op = "create_artifact"
    THEN write_frontmatter(fs, r.path, r.meta)
    ELSE patch_frontmatter(fs, r.path, r.meta)

\* The write of a pending call: write_frontmatter of the new document,
\* patch_frontmatter of the updated one, on storage as it is by then
land(fs, r) ==
    IF r.op = "create_artifact"
    THEN write_frontmatter(fs, r.path, r.meta)
    ELSE patch_frontmatter(fs, r.path, r.meta)

\* get_index(force_refresh): the module-level cache behind the resolver
get_index(force_refresh) ==
    IF cache = <<>> \/ force_refresh THEN <<build_index>> ELSE cache

---------------------------------------------------------------------------
(* The tool server: storage, the index cache and the tool calls *)

Doc(aid, title, status, extra) ==
    Update([id |-> aid, title |-> title, status |-> status,
            revision_count |-> 1], extra)

\* The corpus found on disk when the server starts.
SeedCorpus ==
    LET gl  == <<"brain", "GL-1">>
        ft  == <<"logic", "FT-1">>
        uc  == <<"logic", "UC-1">>
        tsk == <<"backlog", "TSK-1">>
    IN  [p \in {gl, ft, uc, tsk} |->
            CASE p = gl -> Doc("GL-1", "goal", "APPROVED", EmptyDict)
              [] p = ft -> Doc("FT-1", "feature", "APPROVED",
                               [parent_goal |-> "GL-1"])
              [] p = uc -> Doc("UC-1", "use case", "APPROVED",
                               [parent_feat |-> "FT-1",
                                dependencies |->
                                    DepList(<<"FT-1">>)])
              [] OTHER  -> Doc("TSK-1", "task", "DRAFT",
                               [parent_uc |-> "UC-1"])]

\* Arguments the calls are made with
CreateArg(atype, aid, parent_arg, metadata) ==
    [type |-> atype, id |-> aid, parent_id |-> parent_arg, metadata |-> metadata]

Titled == [title |-> "t"]

CreateArgs ==
    {CreateArg("Widget", "TSK-2", "", Titled),
     CreateArg("Task", "TSK-2", "UC-9", Titled),
     CreateArg("Task", "TSK-2", "", Titled),
     CreateArg("Task", "TSK-2", "UC-1", Titled),
     CreateArg("Task", "TSK-2", "UC-1", EmptyDict),
     CreateArg("Task", "TSK-1", "UC-1", Titled),
     CreateArg("Task", "TSK-2", "",
               [title |-> "t", status |-> "WIP", parent_uc |-> "GL-1"]),
     CreateArg("Task", "TSK-2", "UC-9", [title |-> "t", parent_uc |-> "TSK-1"]),
     CreateArg("Goal", "TSK-1", "", Titled),
     CreateArg("Goal", "GL-1", "", Titled),
     CreateArg("Feature", "FT-2", "", [title |-> "t", parent_goal |-> "GL-9"])}
UpdateIds     == {"UC-1", "TSK-1", "UC-9"}
StatusArgs    == {"DRAFT", "DONE", "REJECTED"}
SprintArgs    == {<<"TSK-1">>, <<"TSK-1", "TSK-2">>, <<"TSK-1", "UC-1">>}
CompleteIds   == {"TSK-1", "UC-1"}

ToolInit ==
    /\ files = SeedCorpus
    /\ logs = {}
    /\ sprint = <<>>
    /\ cache = <<>>
    /\ scanRev \in BOOLEAN
    /\ idx = <<>>
    /\ call = [op |-> "none"]
    /\ res = OkText("none", {})
    /\ ncalls = 0

GateIdle ==
    /\ st = <<>>
    /\ trail = <<>>
    /\ wasDone = <<>>
    /\ req = [op |-> "none"]

ValIdle ==
    /\ vidx = EmptyDict
    /\ fbstore = {}
    /\ order = <<>>
    /\ report = <<>>

Init == ToolInit /\ GateIdle /\ ValIdle

CreateArtifact ==
    /\ ncalls < MaxCalls
    /\ \E args \in CreateArgs :
          LET o == create_artifact(args.type, args.id, args.parent_id,
                                   args.metadata) IN
          /\ files' = o.files
          /\ idx' = o.idx
          /\ res' = o.res
          /\ call' = Update([op |-> "create_artifact"], args)
    /\ ncalls' = ncalls + 1
    /\ UNCHANGED <<logs, sprint, cache, scanRev>>
    /\ UNCHANGED <<gateVars, valVars>>

UpdateStatus ==
    /\ ncalls < MaxCalls
    /\ \E aid \in UpdateIds, new_status \in StatusArgs :
          LET o == update_status(aid, new_status) IN
          /\ files' = o.files
          /\ idx' = o.idx
          /\ res' = o.res
          /\ logs' = IF o.res.ok
                     THEN logs \cup {status_log(o.idx[1], aid, new_status)}
                     ELSE logs
          /\ call' = [op |-> "update_status", id |-> aid,
                      new_status |-> new_status]
    /\ ncalls' = ncalls + 1
    /\ UNCHANGED <<sprint, cache, scanRev>>
    /\ UNCHANGED <<gateVars, valVars>>

StartSprint ==
    /\ ncalls < MaxCalls
    /\ \E task_ids \in SprintArgs :
          LET o == start_sprint(task_ids) IN
          /\ files' = o.files
          /\ idx' = o.idx
          /\ res' = o.res
          /\ sprint' = IF o.res.ok THEN sprint_board(task_ids) ELSE sprint
          /\ call' = [op |-> "start_sprint", task_ids |-> task_ids]
    /\ ncalls' = ncalls + 1
    /\ UNCHANGED <<logs, cache, scanRev>>
    /\ UNCHANGED <<gateVars, valVars>>

CompleteTask ==
    /\ ncalls < MaxCalls
    /\ \E task_id \in CompleteIds :
          LET o == complete_task(task_id) IN
          /\ files' = o.files
          /\ idx' = o.idx
          /\ res' = o.res
          /\ sprint' = IF o.res.ok THEN tick_board(sprint, task_id) ELSE sprint
          /\ call' = [op |-> "complete_task", task_id |-> task_id]
    /\ ncalls' = ncalls + 1
    /\ UNCHANGED <<logs, cache, scanRev>>
    /\ UNCHANGED <<gateVars, valVars>>

\* A resolver lookup made without a snapshot (get_by_id, get_children, ...)
Lookup ==
    /\ ncalls < MaxCalls
    /\ \E force_refresh \in BOOLEAN :
          /\ cache' = get_index(force_refresh)
          /\ call' = [op |-> "lookup", force_refresh |-> force_refresh]
    /\ idx' = <<>>
    /\ res' = OkText("lookup", {})
    /\ ncalls' = ncalls + 1
    /\ UNCHANGED <<files, logs, sprint, scanRev>>
    /\ UNCHANGED <<gateVars, valVars>>

Next ==
    \/ CreateArtifact
    \/ UpdateStatus
    \/ StartSprint
    \/ CompleteTask
    \/ Lookup

Spec == Init /\ [][Next]_vars

---------------------------------------------------------------------------
(* The lifecycle walk: statuses changed only as check_transition permits *)

GateArtifacts == {"UC-1", "TSK-1"}

ToolIdle ==
    /\ files = EmptyDict
    /\ logs = {}
    /\ sprint = <<>>
    /\ cache = <<>>
    /\ scanRev = FALSE
    /\ idx = <<>>
    /\ call = [op |-> "none"]
    /\ res = OkText("none", {})
    /\ ncalls = 0

GateInit ==
    /\ st = [a \in GateArtifacts |-> "DRAFT"]
    /\ trail = [a \in GateArtifacts |-> [approved |-> FALSE, fixed |-> FALSE]]
    /\ wasDone = [a \in GateArtifacts |-> FALSE]
    /\ req = [op |-> "none"]

\* What has happened to an artifact since it was last APPROVED
NextTrail(t, from, to) ==
    CASE to = "APPROVED"  -> [approved |-> TRUE, fixed |-> FALSE]
      [] to = "NEEDS_FIX" -> [approved |-> t.approved, fixed |-> t.approved]
      [] from \in {"DRAFT", "REVIEW"} -> [approved |-> FALSE, fixed |-> FALSE]
      [] OTHER -> t

\* A caller asks the gate and commits the change only if it returns None.
Transition ==
    \E a \in GateArtifacts, new_status \in VALID_STATUSES :
        LET err == check_transition(a, st[a], new_status) IN
        /\ req' = [op |-> "check_transition", id |-> a, from |-> st[a],
                   to |-> new_status, err |-> err]
        /\ IF err = <<>>
           THEN /\ st' = [st EXCEPT ![a] = new_status]
                /\ trail' = [trail EXCEPT
                                ![a] = NextTrail(trail[a], st[a], new_status)]
                /\ wasDone' = [wasDone EXCEPT
                                ![a] = wasDone[a] \/ new_status = "DONE"]
           ELSE UNCHANGED <<st, trail, wasDone>>
        /\ UNCHANGED <<toolVars, valVars>>

InitGate == ToolIdle /\ GateInit /\ ValIdle

NextGate == Transition

SpecGate == InitGate /\ [][NextGate]_vars

---------------------------------------------------------------------------
(* The validator run on a snapshot *)

NodeIds    == {"UC-1", "UC-2", "UC-3"}
DepTargets == NodeIds \cup {"UC-9"}

\* dependency lists of at most MaxDeps distinct ids
DepLists ==
    {s \in UNION {[1..n -> DepTargets] : n \in 0..MaxDeps} :
        \A i, j \in 1..Len(s) : i # j => s[i] # s[j]}

Orders(S) ==
    {s \in [1..Cardinality(S) -> S] : \A i, j \in 1..Len(s) : i # j => s[i] # s[j]}

Snapshot(deps) ==
    [a \in NodeIds |->
        [type |-> "UseCase",
         path |-> <<"logic", a>>,
         meta |-> [id |-> a, title |-> "use case",
                   status |-> IF a = "UC-3" THEN "NEEDS_FIX" ELSE "DRAFT",
                   dependencies |-> DepList(deps[a])]]]

ValInit ==
    /\ vidx \in {Snapshot(deps) : deps \in [NodeIds -> DepLists]}
    /\ fbstore = {}
    /\ order \in Orders(NodeIds)
    /\ report = <<>>

Validate ==
    /\ report = <<>>
    /\ report' = <<validate_traceability(vidx, order, fbstore)>>
    /\ vidx' = index_after(vidx)
    /\ UNCHANGED <<fbstore, order>>
    /\ UNCHANGED <<toolVars, gateVars>>

InitValidate == ToolIdle /\ GateIdle /\ ValInit

NextValidate == Validate

SpecValidate == InitValidate /\ [][NextValidate]_vars

---------------------------------------------------------------------------
(* The validator run on a snapshot of all five kinds *)

\* An index entry as build_index makes it for a document named after its id
Entry(aid, dir, meta) ==
    [type |-> type_from_id(aid), path |-> <<dir, aid>>, meta |-> meta]

\* A field left out, or present with one of the values
Opt(k, vals) == {EmptyDict} \cup {[x \in {k} |-> v] : v \in vals}

\* The forms a dependencies field is read in: null, [], lists of at most
\* MaxDeps ids, the string "[UC-2, UC-9]" and the string "[]"
DepForms ==
    {DepNull, DepStr(TRUE, <<"UC-2", "UC-9">>), DepStr(TRUE, <<"">>)}
    \cup {DepList(SubSeq(<<"UC-2", "UC-9", "GL-1">>, 1, n)) : n \in 0..MaxDeps}

\* research_required: true is YAML's boolean, held as str(True)
FeatureMetas ==
    {Update([id |-> "FT-1", title |-> "feature", status |-> "APPROVED",
             parent_goal |-> "GL-1"], o) :
        o \in Opt("research_required", {"True", "False"})}

ResearchMetas ==
    {[id |-> "RS-1", hypothesis |-> "h", verdict |-> v[1], parent_goal |-> v[2]] :
        v \in {<<"SUCCESS", "GL-1">>, <<"PENDING", "GL-1">>,
               <<"FAILED", "GL-1">>, <<"SUCCESS", "GL-2">>}}

UseCaseMetas ==
    {Update(Update([id |-> "UC-1", title |-> "use case", status |-> s], pf), d) :
        s \in {"DONE", "REVIEW", "APPROVED", "IN_PROGRESS"},
        pf \in Opt("parent_feat", {"FT-1", "FT-9"}),
        d \in Opt("dependencies", DepForms)}

DepMetas ==
    {[id |-> "UC-2", title |-> t, status |-> s, parent_feat |-> "FT-1",
      dependencies |-> DepList(<<"GL-1">>)] :
        s \in {"DONE", "REVIEW"}, t \in {"use case", ""}}

TaskMetas ==
    {Update(Update([id |-> "TSK-1", title |-> "task", status |-> "DRAFT"], pu), og) :
        pu \in Opt("parent_uc", {"UC-1", "UC-9"}),
        og \in Opt("origin", {"RS-1", "RS-9"})}

AuditOrder == <<"GL-1", "FT-1", "RS-1", "UC-1", "UC-2", "TSK-1">>

AuditSnapshots ==
    {[a \in SeqRange(AuditOrder) |->
        CASE a = "GL-1"  -> Entry(a, "brain",
                                  [id |-> a, title |-> "goal", status |-> "DONE"])
          [] a = "FT-1"  -> Entry(a, "logic", ft)
          [] a = "RS-1"  -> Entry(a, "R_D_Archive", rs)
          [] a = "UC-1"  -> Entry(a, "logic", uc)
          [] a = "UC-2"  -> Entry(a, "logic", dep)
          [] OTHER       -> Entry(a, "backlog", tsk)] :
        ft \in FeatureMetas, rs \in ResearchMetas, uc \in UseCaseMetas,
        dep \in DepMetas, tsk \in TaskMetas}

AuditInit ==
    /\ vidx \in AuditSnapshots
    /\ fbstore = {}
    /\ order \in {AuditOrder, Reverse(AuditOrder)}
    /\ report = <<>>

InitAudit == ToolIdle /\ GateIdle /\ AuditInit

SpecAudit == InitAudit /\ [][NextValidate]_vars

---------------------------------------------------------------------------
(* The index and the validator on a corpus with stray documents *)

\* Documents a corpus may hold besides the two that are always there: a copy
\* of UC-1 under another name, UC-1 again in another directory, a document
\* whose name is not its id, a note without id, an id with an unknown prefix
StrayDocs ==
    LET copy  == <<"logic", "UC-1-copy">>
        moved == <<"backlog", "UC-1">>
        named == <<"logic", "UC-2">>
        note  == <<"logic", "notes">>
        other == <<"logic", "XX-1">>
    IN  [p \in {copy, moved, named, note, other} |->
            CASE p = copy  -> Doc("UC-1", "copy", "DRAFT",
                                  [parent_feat |-> "FT-1",
                                   dependencies |-> DepStr(TRUE, <<"GL-1">>)])
              [] p = moved -> Doc("UC-1", "moved", "REVIEW",
                                  [parent_feat |-> "FT-1"])
              [] p = named -> Doc("UC-3", "renamed", "DRAFT",
                                  [parent_feat |-> "FT-1",
                                   dependencies |-> DepList(<<"UC-1">>)])
              [] p = note  -> [title |-> "notes"]
              [] OTHER     -> Doc("XX-1", "other", "DRAFT", EmptyDict)]

Corpora ==
    LET gl == <<"brain", "GL-1">>
        uc == <<"logic", "UC-1">>
    IN  {[p \in {gl, uc} \cup S |->
            CASE p = gl -> Doc("GL-1", "goal", "APPROVED", EmptyDict)
              [] p = uc -> Doc("UC-1", "use case", "REVIEW",
                               [parent_feat |-> "FT-1",
                                dependencies |-> DepList(<<"GL-1">>)])
              [] OTHER  -> StrayDocs[p]] :
         S \in SUBSET DOMAIN StrayDocs}
    \cup {EmptyDict}
    \cup {[p \in {gl} |-> Doc("GL-1", "goal", s, EmptyDict)] :
             s \in {"APPROVED", "REJECTED"}}

CorpusInit ==
    /\ files \in Corpora
    /\ logs = {}
    /\ sprint = <<>>
    /\ cache = <<>>
    /\ scanRev \in BOOLEAN
    /\ idx = <<>>
    /\ call = [op |-> "none", prev |-> "none"]
    /\ res = OkText("none", {})
    /\ ncalls = 0

\* blueprint://index: a reader builds the index
BuildIndex ==
    /\ ncalls < MaxSteps
    /\ idx' = <<build_index>>
    /\ call' = [op |-> "build_index", prev |-> call.op]
    /\ res' = OkText("index", DOMAIN build_index)
    /\ ncalls' = ncalls + 1
    /\ UNCHANGED <<files, logs, sprint, cache, scanRev>>
    /\ UNCHANGED <<gateVars, valVars>>

\* validate_all: validate_traceability() builds its own index
ValidateAll ==
    /\ ncalls < MaxSteps
    /\ LET ix == build_index IN
       /\ report' = <<validate_traceability(ix, index_order, fbstore)>>
       /\ vidx' = index_after(ix)
       /\ order' = index_order
       /\ idx' = <<ix>>
    /\ call' = [op |-> "validate_all", prev |-> call.op]
    /\ res' = LET r == validate_traceability(build_index, index_order,
                                              fbstore)
               IN  IF r.raised THEN ErrText("exception", {})
                   ELSE [ok |-> TRUE, kind |-> "validate_all",
                         mentions |-> {}, summary |-> summary(r.errors)]
    /\ ncalls' = ncalls + 1
    /\ UNCHANGED <<files, logs, sprint, cache, scanRev, fbstore>>
    /\ UNCHANGED gateVars

\* The documents opened in the review panel and the decision taken
ReviewPaths == {<<"logic", "UC-1">>, <<"logic", "UC-1-copy">>}
ReviewActions == {"NEEDS_FIX"}

\* The review panel of the GUI: a decision on a document appends to the
\* feedback file of its id and patches its status
ReviewDecision ==
    /\ ncalls < MaxSteps
    /\ \E p \in ReviewPaths \cap DOMAIN files, action \in ReviewActions :
          /\ files' = patch_frontmatter(files, p, [status |-> action])
          /\ fbstore' = fbstore \cup {GetOr(files[p], "id", p[2])}
          /\ call' = [op |-> "review", prev |-> call.op, path |-> p,
                      action |-> action]
    /\ res' = OkText("review", {})
    /\ ncalls' = ncalls + 1
    /\ UNCHANGED <<logs, sprint, cache, scanRev, idx>>
    /\ UNCHANGED <<gateVars, vidx, order, report>>

\* A resolver lookup made without a snapshot: get_by_id(artifact_id) reads
\* the index get_index() hands out; when get_index() builds, that build is
\* the latest one
LookupIds == {"UC-1", "UC-3"}

GetById ==
    /\ ncalls < MaxSteps
    /\ \E artifact_id \in LookupIds :
          LET ix == get_index(FALSE) IN
          /\ cache' = ix
          /\ call' = [op |-> "get_by_id", prev |-> call.op,
                      id |-> artifact_id]
          /\ res' = [ok |-> TRUE, kind |-> "get_by_id", mentions |-> {},
                     node |-> get_by_id(artifact_id, ix[1])]
    /\ idx' = IF cache = <<>> THEN <<build_index>> ELSE idx
    /\ ncalls' = ncalls + 1
    /\ UNCHANGED <<files, logs, sprint, scanRev>>
    /\ UNCHANGED <<gateVars, valVars>>

InitCorpus == CorpusInit /\ GateIdle /\ ValIdle

NextCorpus ==
    \/ BuildIndex
    \/ ValidateAll
    \/ ReviewDecision
    \/ GetById

SpecCorpus == InitCorpus /\ [][NextCorpus]_vars

---------------------------------------------------------------------------
(* The resolver on a snapshot whose parent references may loop *)

\* The snapshots looked into: one node of each of four kinds, each parent
\* field left out, resolving, unresolved, empty or null, and references
\* that close a loop (GL-1 back to TSK-1, FT-1 to itself)
ResolveSnapshots ==
    {[a \in {"GL-1", "FT-1", "UC-1", "TSK-1"} |->
        CASE a = "GL-1" ->
               Entry(a, "brain", Update([id |-> a, status |-> "APPROVED"], go))
          [] a = "FT-1" ->
               Entry(a, "logic", Update([id |-> a, status |-> "APPROVED"], fg))
          [] a = "UC-1" ->
               Entry(a, "logic",
                     Update(Update([id |-> a, status |-> "APPROVED"], uf), uo))
          [] OTHER ->
               Entry(a, "backlog",
                     Update(Update([id |-> a, status |-> "DRAFT"], tu), tg))] :
        go \in Opt("origin", {"TSK-1"}),
        fg \in Opt("parent_goal", {"GL-1", "FT-1", "GL-9"}),
        uf \in Opt("parent_feat", {"FT-1", "FT-9", ""}),
        uo \in Opt("origin", {"GL-1"}),
        tu \in Opt("parent_uc", {"UC-1", "UC-9", None}),
        tg \in Opt("parent_goal", {"GL-1"})}

ResolveOrder == <<"GL-1", "FT-1", "UC-1", "TSK-1">>

ResolveInit ==
    /\ vidx \in ResolveSnapshots
    /\ fbstore = {}
    /\ order \in {ResolveOrder, Reverse(ResolveOrder)}
    /\ report = <<>>

\* The ids asked for
TraceIds == {"TSK-1", "UC-1", "FT-1", "GL-1", "UC-9", ""}
ParentIds == {"GL-1", "FT-1", "UC-1", "UC-9", ""}

GetTracePath ==
    /\ ncalls < MaxCalls
    /\ \E artifact_id \in TraceIds :
          /\ call' = [op |-> "get_trace_path", id |-> artifact_id]
          /\ res' = [ok |-> TRUE, kind |-> "get_trace_path", mentions |-> {},
                     chain |-> get_trace_path(artifact_id, vidx)]
    /\ ncalls' = ncalls + 1
    /\ UNCHANGED <<files, logs, sprint, cache, scanRev, idx>>
    /\ UNCHANGED <<gateVars, valVars>>

GetChildren ==
    /\ ncalls < MaxCalls
    /\ \E parent_id \in ParentIds :
          /\ call' = [op |-> "get_children", parent_id |-> parent_id]
          /\ res' = [ok |-> TRUE, kind |-> "get_children", mentions |-> {},
                     results |-> get_children(parent_id, vidx, order)]
    /\ ncalls' = ncalls + 1
    /\ UNCHANGED <<files, logs, sprint, cache, scanRev, idx>>
    /\ UNCHANGED <<gateVars, valVars>>

InitResolve == ToolIdle /\ GateIdle /\ ResolveInit

NextResolve ==
    \/ GetTracePath
    \/ GetChildren

SpecResolve == InitResolve /\ [][NextResolve]_vars

---------------------------------------------------------------------------
(* The agent and the review panel writing to the same storage *)

\* The server and the GUI are two processes: a decision of the GUI can land
\* between the build_index() of a tool call and the write of that call.
\* req is the tool call in flight, idx the index it built.
RaceInit ==
    /\ files = SeedCorpus
    /\ logs = {}
    /\ sprint = <<>>
    /\ cache = <<>>
    /\ scanRev \in BOOLEAN
    /\ idx = <<>>
    /\ call = [op |-> "none", prev |-> "none"]
    /\ res = OkText("none", {})
    /\ ncalls = 0

RaceCreateArgs ==
    {CreateArg("Task", "TSK-2", "UC-1", Titled),
     CreateArg("Task", "TSK-2", "UC-9", Titled),
     CreateArg("Feature", "FT-2", "GL-1", Titled)}
RaceUpdateIds == {"UC-1", "UC-9"}
RaceStatusArgs == {"DONE", "REVIEW"}

\* create_artifact up to its last check
CreateDecide ==
    /\ ncalls < MaxSteps
    /\ req.op = "none"
    /\ \E args \in RaceCreateArgs :
          LET o == create_artifact(args.type, args.id, args.parent_id,
                                   args.metadata) IN
          /\ idx' = o.idx
          /\ call' = [op |-> "create_artifact", prev |-> call.op,
                      id |-> args.id]
          /\ IF o.res.ok
             THEN /\ req' = pending_create(args.type, args.id,
                                           args.parent_id, args.metadata)
                  /\ res' = res
             ELSE /\ req' = req
                  /\ res' = o.res
    /\ ncalls' = ncalls + 1
    /\ UNCHANGED <<files, logs, sprint, cache, scanRev>>
    /\ UNCHANGED <<st, trail, wasDone, valVars>>

\* update_status up to the lookup of the artifact
UpdateDecide ==
    /\ ncalls < MaxSteps
    /\ req.op = "none"
    /\ \E aid \in RaceUpdateIds, new_status \in RaceStatusArgs :
          LET o == update_status(aid, new_status) IN
          /\ idx' = o.idx
          /\ call' = [op |-> "update_status", prev |-> call.op, id |-> aid]
          /\ IF o.res.ok
             THEN /\ req' = pending_update(aid, new_status)
                  /\ res' = res
             ELSE /\ req' = req
                  /\ res' = o.res
    /\ ncalls' = ncalls + 1
    /\ UNCHANGED <<files, logs, sprint, cache, scanRev>>
    /\ UNCHANGED <<st, trail, wasDone, valVars>>

\* The write of the call in flight and its answer
Write ==
    /\ ncalls < MaxSteps
    /\ req.op # "none"
    /\ files' = land(files, req)
    /\ logs' = IF req.op = "update_status"
               THEN logs \cup {status_log(idx[1], req.id, req.meta["status"])}
               ELSE logs
    /\ res' = req.res
    /\ call' = [op |-> "write", prev |-> call.op, request |-> req]
    /\ req' = [op |-> "none"]
    /\ ncalls' = ncalls + 1
    /\ UNCHANGED <<sprint, cache, scanRev, idx>>
    /\ UNCHANGED <<st, trail, wasDone, valVars>>

InitRace == RaceInit /\ GateIdle /\ ValIdle

NextRace ==
    \/ CreateDecide
    \/ UpdateDecide
    \/ Write
    \/ ReviewDecision

SpecRace == InitRace /\ [][NextRace]_vars

---------------------------------------------------------------------------
(* Properties *)

WriteOps == {"create_artifact", "update_status", "start_sprint", "complete_task"}

StoredStatus(fs, aid) ==
    {Get(fs[p], "status") : p \in {q \in DOMAIN fs : Get(fs[q], "id") = aid}}

\* C1: update_status consults the transition gate before writing: when the
\* stored status of the target and the requested status form a transition
\* check_transition forbids, the call returns an error and storage is
\* unchanged.
C1_GateBeforeWrite ==
    [][(/\ call'.op = "update_status"
        /\ \E cur \in StoredStatus(files, call'.id) :
              check_transition(call'.id, cur, call'.new_status) # <<>>)
       => (~res'.ok /\ files' = files)]_vars

\* C2: check_transition returns an error exactly for APPROVED -> DRAFT/REVIEW
\* and for DONE -> anything but ARCHIVED, over all pairs of the eight
\* statuses, and the verdict is the same for every artifact id.
C2_TransitionTable ==
    req.op = "check_transition" =>
        /\ req.from \in VALID_STATUSES /\ req.to \in VALID_STATUSES
        /\ (req.err # <<>>) <=>
               \/ req.from = "APPROVED" /\ req.to \in {"DRAFT", "REVIEW"}
               \/ req.from = "DONE" /\ req.to # "ARCHIVED"
        /\ \A b \in GateArtifacts :
               (check_transition(b, req.from, req.to) = <<>>) <=> (req.err = <<>>)

C2_Witness ==
    /\ req.op = "check_transition"
    /\ req.from = "DONE" /\ req.to = "DONE" /\ req.err # <<>>
    /\ \E a \in GateArtifacts : st[a] = "NEEDS_FIX" /\ trail[a].approved

\* The UseCase a create_artifact call for a Task names: metadata.parent_uc,
\* else the parent_id argument
NamedParent(c) ==
    IF "parent_uc" \in DOMAIN c.metadata THEN c.metadata["parent_uc"]
    ELSE c.parent_id

TaskCreate == call.op = "create_artifact" /\ call.type = "Task"

\* C3 as stated: a Task is written only if the named parent UseCase resolves
\* in the call's snapshot with status APPROVED; an absent parent fails the
\* call, and any other status fails it with an error naming that status.
C3_TaskGateAsStated ==
    (TaskCreate /\ idx # <<>>) =>
        LET uc == NamedParent(call) IN
        /\ res.ok => (uc \in DOMAIN idx[1]
                      /\ Get(idx[1][uc].meta, "status") = "APPROVED")
        /\ uc \notin DOMAIN idx[1] => ~res.ok
        /\ (uc \in DOMAIN idx[1] /\ Get(idx[1][uc].meta, "status") # "APPROVED")
              => (~res.ok /\ Get(idx[1][uc].meta, "status") \in res.mentions)

\* C3 amended: as stated, except that the error names the status only when
\* the parent_id argument, if given, resolves; a parent_id that does not
\* resolve fails the call first with "parent not found".
C3_TaskGate ==
    (TaskCreate /\ idx # <<>>) =>
        LET uc == NamedParent(call) IN
        /\ res.ok => (uc \in DOMAIN idx[1]
                      /\ Get(idx[1][uc].meta, "status") = "APPROVED")
        /\ uc \notin DOMAIN idx[1] => ~res.ok
        /\ (uc \in DOMAIN idx[1] /\ Get(idx[1][uc].meta, "status") # "APPROVED")
              => /\ ~res.ok
                 /\ IF call.parent_id = "" \/ call.parent_id \in DOMAIN idx[1]
                    THEN Get(idx[1][uc].meta, "status") \in res.mentions
                    ELSE res.kind = "parent not found"

C3_Witness ==
    /\ TaskCreate /\ ~res.ok /\ idx # <<>>
    /\ res.kind = "G1 parent not APPROVED"
    /\ NamedParent(call) = "UC-1"
    /\ "DONE" \in res.mentions

\* C4: a create_artifact or update_status call that returns an error leaves
\* every document as it was.
C4_RejectedNoEffect ==
    [][(call'.op \in {"create_artifact", "update_status"} /\ ~res'.ok)
       => (files' = files /\ logs' = logs)]_vars

C4_Witness ==
    /\ call.op = "update_status" /\ ~res.ok /\ res.kind = "invalid status"
    /\ \E p \in DOMAIN files : files[p]["revision_count"] > 1

\* C5: once an artifact has been DONE, its status is DONE or ARCHIVED ever
\* after, along every walk check_transition permits.
C5_DoneTerminal ==
    \A a \in DOMAIN st : wasDone[a] => st[a] \in {"DONE", "ARCHIVED"}

\* C6: an artifact that was APPROVED is back in DRAFT or REVIEW only after
\* having been NEEDS_FIX in between, along every walk check_transition
\* permits.
C6_ApprovedViaNeedsFix ==
    \A a \in DOMAIN st :
        (st[a] \in {"DRAFT", "REVIEW"} /\ trail[a].approved) => trail[a].fixed

\* A snapshot that lists exactly the documents of the storage it is compared
\* with, each under its declared id and with its stored front-matter
ReflectsStorage(ix, fs) ==
    /\ \A p \in DOMAIN fs :
          (Truthy(fs[p], "id") /\ type_from_id(fs[p]["id"]) # None)
              => fs[p]["id"] \in DOMAIN ix
    /\ \A a \in DOMAIN ix :
          /\ ix[a].path \in DOMAIN fs
          /\ ix[a].meta = fs[ix[a].path]
          /\ fs[ix[a].path]["id"] = a

\* C7: the snapshot a mutating tool decides on is built inside the call from
\* the storage as every earlier call left it, never taken from the cache;
\* no mutating tool writes without having built one.
C7_FreshSnapshot ==
    [][call'.op \in WriteOps =>
          /\ idx' # <<>> => ReflectsStorage(idx'[1], files)
          /\ res'.ok => idx' # <<>>]_vars

C7_Witness ==
    /\ call.op \in WriteOps /\ idx # <<>>
    /\ cache # <<>> /\ ~ReflectsStorage(cache[1], files)
    /\ \E a \in DOMAIN idx[1] \cap DOMAIN cache[1] :
          Get(idx[1][a].meta, "status") # Get(cache[1][a].meta, "status")

\* C8: every stored status stays one of the eight enumerated values.
C8_StatusEnumerated ==
    \A p \in DOMAIN files :
        "status" \in DOMAIN files[p] => files[p]["status"] \in VALID_STATUSES

\* The dependency edges of a snapshot, read off the metadata
Edges(ix, n) ==
    IF n \in DOMAIN ix /\ "dependencies" \in DOMAIN ix[n].meta
    THEN SeqRange(ix[n].meta["dependencies"].items)
    ELSE {}

RECURSIVE ReachFrom(_, _)
ReachFrom(ix, S) ==
    LET T == S \cup UNION {Edges(ix, n) : n \in S}
    IN  IF T = S THEN S ELSE ReachFrom(ix, T)

OnCycle(ix, n) == n \in ReachFrom(ix, Edges(ix, n))

HasCycle(ix) == \E n \in DOMAIN ix : OnCycle(ix, n)

CircularErrors(errors) ==
    SelectSeq(errors,
        LAMBDA e : /\ e.error_type = "GATE_VIOLATION"
                   /\ e.detail.msg = "Circular dependency detected")

\* C9: validate reports exactly one circular-dependency GATE_VIOLATION when
\* the dependency graph has a cycle (a self-loop, several disjoint cycles)
\* and none when it is acyclic, whatever the iteration order.
C9_CycleExact ==
    report # <<>> =>
        /\ ~report[1].raised
        /\ Len(CircularErrors(report[1].errors)) =
               IF HasCycle(vidx) THEN 1 ELSE 0

C9_Witness ==
    /\ report # <<>>
    /\ Len(CircularErrors(report[1].errors)) = 1
    /\ "UC-1" \in Edges(vidx, "UC-1")
    /\ "UC-3" \in Edges(vidx, "UC-2") /\ "UC-2" \in Edges(vidx, "UC-3")
    /\ order[1] = "UC-2"

\* C10: the id sequence of the circular-dependency message starts and ends
\* with the same id, each consecutive pair is a dependency edge, and every
\* id listed lies on the cycle.
C10_CycleNamed ==
    report # <<>> =>
        \A k \in 1..Len(CircularErrors(report[1].errors)) :
            LET c == CircularErrors(report[1].errors)[k].detail.args IN
            /\ Len(c) >= 2
            /\ c[1] = c[Len(c)]
            /\ \A i \in 1..(Len(c) - 1) : c[i + 1] \in Edges(vidx, c[i])
            /\ \A i \in 1..Len(c) : OnCycle(vidx, c[i])

\* A validate run that came back with a report
Returned == report # <<>> /\ ~report[1].raised

\* How many findings of the report satisfy a test
Count(Test(_)) ==
    Cardinality({i \in 1..Len(report[1].errors) : Test(report[1].errors[i])})

StatusOf(a) == Get(vidx[a].meta, "status")

\* The ids a node depends on: the items of a list, the comma-separated parts
\* of a string; an absent or null field is the empty set
DeclaredDeps(a) ==
    IF "dependencies" \notin DOMAIN vidx[a].meta THEN {}
    ELSE LET d == vidx[a].meta["dependencies"] IN
         CASE d.form = "list" -> SeqRange(d.items)
           [] d.form = "str"  -> SeqRange(d.parts) \ {""}
           [] OTHER           -> {}

DoneGateErrors(a, d) ==
    LET Test(e) == /\ e.artifact_id = a
                   /\ e.error_type = "GATE_VIOLATION"
                   /\ e.severity = "ERROR"
                   /\ e.detail.msg = "cannot mark DONE while dependency is not"
                   /\ e.detail.args[2] = d
    IN  Count(Test)

\* C11: in a returned report, a node gets exactly one DONE-gate
\* GATE_VIOLATION per resolvable dependency whose status is not DONE when its
\* own status is DONE, and none for a DONE dependency or when its own status
\* is not DONE.
C11_DoneGate ==
    Returned =>
        \A a \in DOMAIN vidx, d \in DOMAIN vidx :
            DoneGateErrors(a, d) =
                IF /\ StatusOf(a) = "DONE"
                   /\ d \in DeclaredDeps(a)
                   /\ StatusOf(d) # "DONE"
                THEN 1 ELSE 0

C11_Witness ==
    /\ Returned
    /\ StatusOf("UC-1") = "DONE" /\ StatusOf("UC-2") = "REVIEW"
    /\ "dependencies" \in DOMAIN vidx["UC-1"].meta
    /\ vidx["UC-1"].meta["dependencies"].form = "str"
    /\ DoneGateErrors("UC-1", "UC-2") = 1
    /\ DoneGateErrors("UC-2", "GL-1") = 0

BlockedErrors(a) ==
    LET Test(e) == e.artifact_id = a /\ e.error_type = "BLOCKED_BY_PARENT"
    IN  Count(Test)

\* C12: in a returned report, every Task whose parent_uc does not resolve in
\* the snapshot, or resolves to a node whose status is not APPROVED, carries
\* a BLOCKED_BY_PARENT error, and a Task whose parent exists with status
\* APPROVED carries none.
C12_TaskGateValidate ==
    Returned =>
        \A a \in DOMAIN vidx :
            vidx[a].type = "Task" =>
                LET resolves == /\ "parent_uc" \in DOMAIN vidx[a].meta
                                /\ vidx[a].meta["parent_uc"] \in DOMAIN vidx
                    approved == /\ resolves
                                /\ StatusOf(vidx[a].meta["parent_uc"]) = "APPROVED"
                IN  IF approved THEN BlockedErrors(a) = 0
                    ELSE BlockedErrors(a) >= 1

ResearchGateErrors(a) ==
    LET Test(e) == /\ e.artifact_id = a
                   /\ e.error_type = "GATE_VIOLATION"
                   /\ e.severity = "ERROR"
                   /\ e.detail.msg = "research_required but no Research spike"
    IN  Count(Test)

\* The Research nodes that back a Feature: same Goal, verdict SUCCESS or PENDING
BackingResearch(f) ==
    {r \in DOMAIN vidx :
        /\ vidx[r].type = "Research"
        /\ "parent_goal" \in DOMAIN vidx[r].meta
        /\ "parent_goal" \in DOMAIN vidx[f].meta
        /\ vidx[r].meta["parent_goal"] = vidx[f].meta["parent_goal"]
        /\ Get(vidx[r].meta, "verdict") \in {"SUCCESS", "PENDING"}}

OrphanErrors(a, f) ==
    LET Test(e) == /\ e.artifact_id = a
                   /\ e.error_type = "ORPHAN"
                   /\ e.severity = "ERROR"
                   /\ e.detail.msg = "parent reference does not exist"
                   /\ e.detail.args[1] = f
    IN  Count(Test)

\* C14: in a returned report, a node carries exactly one ORPHAN error for a
\* parent field (parent_goal, parent_feat, parent_uc, origin) whose value is
\* not an id of the snapshot, and none for a field that is absent or resolves.
C14_Orphan ==
    Returned =>
        \A a \in DOMAIN vidx :
            \A f \in {"parent_goal", "parent_feat", "parent_uc", "origin"} :
                OrphanErrors(a, f) =
                    IF /\ f \in DOMAIN vidx[a].meta
                       /\ vidx[a].meta[f] \notin DOMAIN vidx
                    THEN 1 ELSE 0

C14_Witness ==
    /\ Returned
    /\ Get(vidx["TSK-1"].meta, "parent_uc") = "UC-9"
    /\ Get(vidx["TSK-1"].meta, "origin") = "RS-9"
    /\ OrphanErrors("TSK-1", "parent_uc") = 1
    /\ OrphanErrors("TSK-1", "origin") = 1
    /\ OrphanErrors("FT-1", "parent_goal") = 0

MissingErrors(a, f) ==
    LET Test(e) == /\ e.artifact_id = a
                   /\ e.error_type = "MISSING_FIELD"
                   /\ e.severity = "ERROR"
                   /\ e.detail.args = <<f>>
    IN  Count(Test)

\* A field that is absent or empty: no key, null, the empty string, the
\* empty list
Blank(m, f) ==
    \/ f \notin DOMAIN m
    \/ /\ f = "dependencies"
       /\ \/ m[f].form = "null"
          \/ m[f].form = "list" /\ Len(m[f].items) = 0
          \/ m[f].form = "str" /\ ~m[f].brackets /\ m[f].parts = <<"">>
    \/ /\ f # "dependencies"
       /\ m[f] \in {None, ""}

\* Every field name the snapshots use
FieldNames ==
    UNION {SeqRange(REQUIRED_FIELDS[k]) : k \in DOMAIN REQUIRED_FIELDS}
    \cup {"origin", "research_required"}

\* C15: in a returned report, a node carries exactly one MISSING_FIELD error
\* for each field of its kind's required list that is absent or empty, and
\* none for any other field; an empty dependencies list of a UseCase counts
\* as missing.
C15_Completeness ==
    Returned =>
        \A a \in DOMAIN vidx, f \in FieldNames :
            MissingErrors(a, f) =
                IF /\ f \in SeqRange(REQUIRED_FIELDS[vidx[a].type])
                   /\ Blank(vidx[a].meta, f)
                THEN 1 ELSE 0

C15_Witness ==
    /\ Returned
    /\ "dependencies" \in DOMAIN vidx["UC-1"].meta
    /\ vidx["UC-1"].meta["dependencies"] = DepList(<<>>)
    /\ MissingErrors("UC-1", "dependencies") = 1
    /\ vidx["UC-2"].meta["title"] = "" /\ MissingErrors("UC-2", "title") = 1
    /\ MissingErrors("UC-2", "dependencies") = 0

Warnings(a) ==
    LET Test(e) == /\ e.artifact_id = a
                   /\ e.error_type = "SOFT_WARNING"
                   /\ e.severity = "WARNING"
    IN  Count(Test)

\* C16: in a returned report, every node whose status is NEEDS_FIX or
\* REJECTED and that has no feedback record carries exactly one SOFT_WARNING
\* of severity WARNING, and every other node carries none, whatever the
\* iteration order and whether or not there is a dependency cycle.
C16_AdvisoryWarning ==
    Returned =>
        \A a \in DOMAIN vidx :
            Warnings(a) =
                IF StatusOf(a) \in {"NEEDS_FIX", "REJECTED"} /\ a \notin fbstore
                THEN 1 ELSE 0

\* C20: every validate run returns a report, whatever form the dependencies
\* fields of the snapshot take (absent, null, empty list, delimited string).
C20_RunsToCompletion ==
    report # <<>> => ~report[1].raised

\* The stored documents that declare an id
DeclaredBy(a) == {p \in Indexed : files[p]["id"] = a}

FlaggedDuplicate(p) ==
    \E i \in 1..Len(report[1].errors) :
        /\ report[1].errors[i].error_type = "DUPLICATE_ID"
        /\ report[1].errors[i].path = p

\* C17: every node of the index validate_all built sits under the id it
\* declares, and whenever two stored documents declare the same id, the
\* report flags both of them as DUPLICATE_ID.
C17_Uniqueness ==
    (call.op = "validate_all" /\ Returned) =>
        /\ \A a \in DOMAIN vidx : vidx[a].meta["id"] = a
        /\ \A p \in Indexed, q \in Indexed :
              (p # q /\ files[p]["id"] = files[q]["id"])
                  => (FlaggedDuplicate(p) /\ FlaggedDuplicate(q))

\* Two indexes with the same ids and, for every id, the same kind and metadata
SameNodes(i1, i2) ==
    /\ DOMAIN i1 = DOMAIN i2
    /\ \A a \in DOMAIN i1 : i1[a].type = i2[a].type /\ i1[a].meta = i2[a].meta

EntrySet(errors) ==
    {<<errors[i].artifact_id, errors[i].error_type, errors[i].detail>> :
        i \in 1..Len(errors)}

\* C21: for a fixed snapshot, every iteration order of its nodes yields the
\* same set of (artifact id, error kind, message) entries as the run made.
C21_OrderIndependent ==
    Returned =>
        \A o \in Orders(DOMAIN vidx) :
            LET other == validate_traceability(vidx, o, fbstore) IN
            /\ ~other.raised
            /\ EntrySet(other.errors) = EntrySet(report[1].errors)

\* C27: every error check_transition returns names the artifact id, the
\* current status and the requested status.
C27_ErrorNamesAll ==
    (req.op = "check_transition" /\ req.err # <<>>) =>
        {req.id, req.from, req.to} \subseteq req.err[1].mentions

\* C28: in a returned report, every node whose status is not one of the
\* eight enumerated values (IN_PROGRESS, or no status at all) carries at
\* least one ERROR entry.
C28_InvalidStatusReported ==
    Returned =>
        \A a \in DOMAIN vidx :
            StatusOf(a) \notin VALID_STATUSES =>
                \E i \in 1..Len(report[1].errors) :
                    /\ report[1].errors[i].artifact_id = a
                    /\ report[1].errors[i].severity = "ERROR"

\* The header lines of a summary
Headers(text, tag) ==
    {i \in 1..Len(text) : text[i].kind = tag}

\* C22: summary() is the all-clear message exactly when the report has no
\* entries; otherwise the error count it prints is the number of ERROR
\* entries, the warning count the number of WARNING entries, and has_errors
\* holds exactly when an ERROR entry exists.
C22_Summary ==
    (call.op = "validate_all" /\ Returned /\ res.ok) =>
        LET errors == report[1].errors
            nerr  == Count(LAMBDA e : e.severity = "ERROR")
            nwarn == Count(LAMBDA e : e.severity = "WARNING")
            text == res.summary
        IN  /\ (text = << [kind |-> "all_clear"] >>) <=> (errors = <<>>)
            /\ \A i \in Headers(text, "found_errors") : text[i].n = nerr
            /\ \A i \in Headers(text, "found_warnings") : text[i].n = nwarn
            /\ nerr > 0 => Headers(text, "found_errors") # {}
            /\ nwarn > 0 => Headers(text, "found_warnings") # {}
            /\ error_count(errors) = nerr
            /\ warning_count(errors) = nwarn
            /\ has_errors(errors) <=> nerr > 0

\* A report that holds warnings and no error has been summarised
C22_Witness ==
    /\ call.op = "validate_all" /\ Returned /\ res.ok
    /\ report[1].errors # <<>>
    /\ \A i \in DOMAIN report[1].errors :
          report[1].errors[i].severity = "WARNING"
    /\ Headers(res.summary, "found_warnings") # {}

\* C26: a lookup made without a snapshot reads the index of the latest
\* build_index run.
C26_LookupLatestBuild ==
    (call.op = "get_by_id" /\ idx # <<>>) =>
        /\ cache = idx
        /\ res.node = get_by_id(call.id, idx[1])

\* The ids of the nodes of a chain, and the parent fields of a node
ChainIds(chain) == {chain[i].meta["id"] : i \in 1..Len(chain)}

ParentValues(meta) ==
    {meta[k] : k \in DOMAIN meta \cap SeqRange(PARENT_FIELDS)}

\* C23: get_trace_path returns (terminates) on every snapshot, loops
\* included; the chain is empty for an unknown id and otherwise starts with
\* the queried node, each next element is a parent its predecessor names
\* (leaf to root), and no node occurs twice.
C23_TracePathShape ==
    call.op = "get_trace_path" =>
        LET chain == res.chain IN
        /\ call.id \notin DOMAIN vidx => chain = <<>>
        /\ call.id \in DOMAIN vidx => chain # <<>> /\ chain[1] = vidx[call.id]
        /\ \A i \in 1..Len(chain) : chain[i] = vidx[chain[i].meta["id"]]
        /\ \A i \in 2..Len(chain) :
              chain[i].meta["id"] \in ParentValues(chain[i - 1].meta)
        /\ \A i, j \in 1..Len(chain) : i # j => chain[i] # chain[j]

\* A walk that went round a loop: every node is in the chain and the last
\* one names the first as its parent
C23_Witness ==
    /\ call.op = "get_trace_path"
    /\ Len(res.chain) = Cardinality(DOMAIN vidx)
    /\ res.chain[1].meta["id"] \in
          ParentValues(res.chain[Len(res.chain)].meta)

\* The first non-empty parent field of a node in the priority order
\* parent_uc, parent_feat, parent_goal, origin, as an Optional
FirstNonEmpty(meta) ==
    LET keys == <<"parent_uc", "parent_feat", "parent_goal", "origin">>
        set  == {i \in 1..4 : /\ keys[i] \in DOMAIN meta
                              /\ meta[keys[i]] \notin {"", None}}
    IN  IF set = {} THEN <<>>
        ELSE << meta[keys[CHOOSE i \in set : \A j \in set : i <= j]] >>

\* C24: each element after the first is the node named by the first
\* non-empty field of its predecessor in the priority order; the chain ends
\* at a node that names no parent, whose chosen parent is not in the
\* snapshot (lower-priority fields are not consulted), or whose chosen
\* parent is already in the chain.
C24_TracePathPriority ==
    call.op = "get_trace_path" =>
        LET chain == res.chain IN
        \A i \in 1..Len(chain) :
            LET f == FirstNonEmpty(chain[i].meta) IN
            IF i < Len(chain)
            THEN f = << chain[i + 1].meta["id"] >>
            ELSE \/ f = <<>>
                 \/ f[1] \notin DOMAIN vidx
                 \/ f[1] \in ChainIds(chain)

\* A walk that stopped at a node whose chosen parent is unresolved although
\* a lower-priority field of that node resolves
C24_Witness ==
    /\ call.op = "get_trace_path"
    /\ Len(res.chain) >= 2
    /\ LET last == res.chain[Len(res.chain)].meta IN
       /\ FirstNonEmpty(last) # <<>>
       /\ FirstNonEmpty(last)[1] \notin DOMAIN vidx
       /\ \E v \in ParentValues(last) : v \in DOMAIN vidx

\* C25: get_children(parentID) returns exactly the nodes with one of the
\* four parent fields present and equal to parentID, each once, for every
\* parentID including the empty string.
C25_ChildrenExact ==
    call.op = "get_children" =>
        LET results == res.results IN
        /\ SeqRange(results) =
              {vidx[a] : a \in {b \in DOMAIN vidx :
                                   call.parent_id \in ParentValues(vidx[b].meta)}}
        /\ \A i, j \in 1..Len(results) : i # j => results[i] # results[j]

\* The revision_count an index holds for an artifact
Revision(ix, a) == GetOr(ix[a].meta, "revision_count", 0)

\* C29: over every tool call, the revision_count stored for an artifact
\* never decreases, and a successful update_status raises the count of its
\* artifact by exactly 1.
C29_RevisionMonotonic ==
    [][LET before == build_index
           after  == build_index'
       IN  /\ \A a \in DOMAIN before \cap DOMAIN after :
                 Revision(after, a) >= Revision(before, a)
           /\ (call'.op = "update_status" /\ res'.ok) =>
                 Revision(after, call'.id) = Revision(before, call'.id) + 1
      ]_vars

\* C30: the write of a tool call lands whatever happened to storage since
\* its index was built, and the document then holds what the last writer
\* wrote: after a write the document carries every value of the request,
\* after a review decision it carries the status of the decision.
C30_LastWriteWins ==
    /\ call.op = "write" =>
          /\ call.request.path \in DOMAIN files
          /\ \A k \in DOMAIN call.request.meta :
                /\ k \in DOMAIN files[call.request.path]
                /\ files[call.request.path][k] = call.request.meta[k]
          /\ res.ok
    /\ call.op = "review" => files[call.path]["status"] = call.action

\* The stale gate: the Task has been written, the index the call built holds
\* its parent UseCase as APPROVED, and storage holds that parent as
\* NEEDS_FIX
C30_Witness ==
    /\ call.op = "write"
    /\ call.request.op = "create_artifact"
    /\ call.request.gate # <<>>
    /\ LET task   == files[call.request.path]
           parent == task["parent_uc"]
       IN  /\ idx[1][parent].meta["status"] = "APPROVED"
           /\ idx[1][parent].type = "UseCase"
           /\ files[idx[1][parent].path]["status"] = "NEEDS_FIX"

\* C31: update_status answers 'Invalid status' exactly for the values outside
\* the validator's eight statuses, and then writes nothing.
C31_StatusSetsAgree ==
    call.op = "update_status" =>
        /\ (res.kind = "invalid status") <=> (call.new_status \notin VALID_STATUSES)
        /\ res.kind = "invalid status" => idx = <<>>

\* The document a successful create_artifact call wrote
Created == files[<<ARTIFACT_WRITE_DIRS[call.type], call.id>>]

\* C33: the document written by a successful create_artifact has status
\* DRAFT, revision_count 1 and the requested id, which is the file's stem,
\* whatever the metadata argument holds.
C33_CreatedDefaults ==
    (call.op = "create_artifact" /\ res.ok) =>
        /\ Get(Created, "status") = "DRAFT"
        /\ GetOr(Created, "revision_count", 0) = 1
        /\ Get(Created, "id") = call.id

\* C34: no two stored documents declare the same id.
C34_IdsUnique ==
    \A p, q \in DOMAIN files :
        (p # q /\ "id" \in DOMAIN files[p] /\ "id" \in DOMAIN files[q]) =>
            files[p]["id"] # files[q]["id"]

\* C35: the index classifies an artifact created with type T as kind T.
C35_KindIsType ==
    (call.op = "create_artifact" /\ res.ok) =>
        /\ call.id \in DOMAIN build_index
        /\ build_index[call.id].type = call.type

\* C37: a Task is created only under a parent that the snapshot of the call
\* holds as a node of kind UseCase.
C37_ParentIsUseCase ==
    (call.op = "create_artifact" /\ res.ok /\ call.type = "Task") =>
        LET uc_id == GetOr(call.metadata, "parent_uc", call.parent_id) IN
        /\ uc_id \in DOMAIN idx[1]
        /\ idx[1][uc_id].type = "UseCase"

\* The ids a document refers to: its non-empty parent fields and the items
\* of its dependencies
RefersTo(doc) ==
    {doc[k] : k \in {f \in SeqRange(PARENT_FIELDS) : Truthy(doc, f)}}
    \cup SeqRange(deps_g8(doc))

\* C36: after a successful create_artifact every parent field and every
\* dependency of the new document names an id of the index.
C36_NoDanglingReference ==
    (call.op = "create_artifact" /\ res.ok) =>
        RefersTo(Created) \subseteq DOMAIN build_index

\* Whether a validate_traceability run reports no ERROR entry
NoError(r) == ~r.raised /\ ~has_errors(r.errors)

\* The entries of a snapshot in the order their documents were scanned
SnapshotOrder(ix) ==
    [i \in 1..Cardinality(DOMAIN ix) |->
        CHOOSE a \in DOMAIN ix :
            Cardinality({b \in DOMAIN ix :
                            ScanPos(ix[b].path) < ScanPos(ix[a].path)}) = i - 1]

\* C32: when validate reports no ERROR entry for the snapshot a successful
\* create_artifact, update_status or complete_task call was made on, it
\* reports no ERROR entry for the corpus the call leaves.
C32_ValidityPreserved ==
    (/\ call.op \in {"create_artifact", "update_status", "complete_task"}
     /\ res.ok
     /\ NoError(validate_traceability(idx[1], SnapshotOrder(idx[1]), fbstore)))
    => NoError(validate_traceability(build_index, index_order, fbstore))

\* C38: start_sprint is all-or-nothing over the snapshot it builds: when a
\* listed id is missing or not a Task the call fails and every listed
\* document is as the snapshot read it; otherwise the call succeeds and
\* every listed task's document is IN_PROGRESS with last_updated set.
C38_SprintAllOrNothing ==
    call.op = "start_sprint" =>
        LET ix     == idx[1]
            listed == SeqRange(call.task_ids)
            bad    == {t \in listed : t \notin DOMAIN ix \/ ix[t].type # "Task"}
        IN  IF bad # {}
            THEN /\ ~res.ok
                 /\ \A t \in listed \cap DOMAIN ix :
                       files[ix[t].path] = ix[t].meta
            ELSE /\ res.ok
                 /\ \A t \in listed :
                       /\ Get(files[ix[t].path], "status") = "IN_PROGRESS"
                       /\ "last_updated" \in DOMAIN files[ix[t].path]
                       /\ \A k \in DOMAIN ix[t].meta \ {"status", "last_updated"} :
                             files[ix[t].path][k] = ix[t].meta[k]

\* A sprint refused for its second id, the first being a Task of the snapshot
C38_Witness ==
    /\ call.op = "start_sprint" /\ ~res.ok
    /\ Len(call.task_ids) = 2
    /\ call.task_ids[1] \in DOMAIN idx[1]
    /\ idx[1][call.task_ids[1]].type = "Task"
    /\ Get(files[idx[1][call.task_ids[1]].path], "status") # "IN_PROGRESS"

\* The fields update_status writes
StatusFields == {"status", "last_updated", "revision_count"}

\* C39: a successful update_status changes the status, last_updated and
\* revision_count of the target document and nothing else: its other fields
\* and every other document are as before, and the transition it records
\* carries the status stored before the call.
C39_UpdateFrame ==
    [][(call'.op = "update_status" /\ res'.ok) =>
          LET p == idx'[1][call'.id].path IN
          /\ DOMAIN files' = DOMAIN files
          /\ \A q \in DOMAIN files \ {p} : files'[q] = files[q]
          /\ DOMAIN files'[p] = DOMAIN files[p] \cup StatusFields
          /\ \A k \in DOMAIN files[p] \ StatusFields : files'[p][k] = files[p][k]
          /\ files'[p]["status"] = call'.new_status
          /\ [artifact   |-> call'.id,
              old_status |-> GetOr(files[p], "status", "UNKNOWN"),
              new_status |-> call'.new_status] \in logs'
          /\ GetOr(files[p], "status", "UNKNOWN") \in res'.mentions
      ]_vars

\* A status has been changed on a document that holds other fields
C39_Witness ==
    /\ call.op = "update_status" /\ res.ok
    /\ LET doc == files[idx[1][call.id].path] IN
       /\ doc["status"] = call.new_status
       /\ doc["status"] # Get(idx[1][call.id].meta, "status")
       /\ doc["revision_count"] > 1
       /\ {"title", "parent_feat", "dependencies"} \subseteq DOMAIN doc

====
